---- MODULE Spec2Model ----
(***************************************************************************)
(* Model of the quiz server of src/app.py: the /quiz/next, /quiz/clear-cache *)
(* and /quiz/status handlers over the process-wide caches, with the remote  *)
(* generation API and the file system as nondeterministic inputs.           *)
(*                                                                          *)
(* A Python str is a sequence of one-character strings.  A JSON value of    *)
(* the remote output is a record [t, v]: t is its type ("str", "int",       *)
(* "list", "absent" for a key the object does not hold) and v its content.  *)
(* An Optional[str] argument is [t |-> "none"] or [t |-> "str"].            *)
(***************************************************************************)
EXTENDS Integers, Sequences, FiniteSets, TLC

\* ------------------------------------------------------------------------
\* Program constants (src/app.py:27-28)
TEST_MODE_QUESTIONS == 25
PRACTICE_MODE_QUESTIONS_PER_SET == 5

\* ------------------------------------------------------------------------
\* Bounds of the model
\* longest remote batch enumerated candidate by candidate
MaxBatch == 2
\* the remote model writes MaxRounds different batches for one prompt
MaxRounds == 1

\* the extract_key_concepts calls for one path are counted up to MaxExtracts
MaxExtracts == 2

\* consecutive clear-cache calls are counted up to MaxClears
MaxClears == 2

\* a well-formed remote batch for a practice page holds up to MaxOver pages
MaxOver == 2

\* ------------------------------------------------------------------------
\* Strings

Space == " "

RECURSIVE LStrip(_)
LStrip(s) ==
    IF s # <<>> /\ Head(s) = Space THEN LStrip(Tail(s)) ELSE s

RECURSIVE RStrip(_)
RStrip(s) ==
    IF s # <<>> /\ s[Len(s)] = Space THEN RStrip(SubSeq(s, 1, Len(s) - 1)) ELSE s

\* str.strip() with no argument, on the characters the model uses
Strip(s) == RStrip(LStrip(s))

JStr(s) == [t |-> "str", v |-> s]
JInt(s) == [t |-> "int", v |-> s]
JAbsent == [t |-> "absent", v |-> <<>>]
JList(elems) == [t |-> "list", v |-> elems]

None == [t |-> "none", v |-> <<>>]
Some(s) == [t |-> "str", v |-> s]

\* Python truthiness of an Optional[str]: None and "" are false
Truthy(o) == o.t = "str" /\ o.v # <<>>

\* an Optional[str] inside an f-string: None is rendered as the text None
Render(o) == IF o.t = "none" THEN <<"N", "o", "n", "e">> ELSE o.v

SeqToSet(s) == {s[i] : i \in 1..Len(s)}

Min(a, b) == IF a < b THEN a ELSE b

\* ------------------------------------------------------------------------
\* Remote output: the candidates of response_data["questions"]

\* a candidate is a JSON object; a key it does not hold is JAbsent
Candidate(q, o, a, e) == [question |-> q, options |-> o, answer |-> a, explanation |-> e]

Digits == <<"0", "1", "2", "3", "4", "5", "6", "7", "8", "9">>

\* the text of the i-th question of a well-formed batch
QText(i) == <<"q", Digits[(i \div 10) + 1], Digits[(i % 10) + 1]>>

OptX == <<"x">>
OptY == <<"y">>
OptZ == <<"z">>

SameOptions == JList(<<JStr(OptX), JStr(OptX), JStr(OptX), JStr(OptX)>>)
MixedOptions == JList(<<JStr(OptX), JStr(OptX), JStr(OptX), JStr(OptY)>>)
PaddedOptions == JList(<<JStr(<<Space>> \o OptX), JStr(OptX), JStr(OptX \o <<Space>>), JStr(OptX)>>)
ThreeOptions == JList(<<JStr(OptX), JStr(OptX), JStr(OptY)>>)
Explanation == JStr(<<"e">>)

\* a question as the prompt asks for it
WellFormed(i) == Candidate(JStr(QText(i)), SameOptions, JStr(OptX), Explanation)

\* candidates enumerated one by one: valid ones, and one per check of the loop
GoodShuffled == Candidate(JStr(QText(1)), MixedOptions, JStr(OptY), Explanation)
GoodPadded == Candidate(JStr(<<Space>> \o QText(1)), PaddedOptions, JStr(OptX \o <<Space>>), JStr(<<"e", Space>>))
GoodOther == WellFormed(2)
NoExplanation == Candidate(JStr(QText(3)), SameOptions, JStr(OptX), JAbsent)
WrongCount == Candidate(JStr(QText(3)), ThreeOptions, JStr(OptX), Explanation)
WrongAnswer == Candidate(JStr(QText(3)), MixedOptions, JStr(OptZ), Explanation)
IntAnswer == Candidate(JStr(QText(3)), MixedOptions, JInt(<<"7">>), Explanation)

Candidates ==
    {GoodShuffled, GoodPadded, GoodOther, NoExplanation, WrongCount, WrongAnswer, IntAnswer}

RECURSIVE SeqsUpTo(_, _)
SeqsUpTo(S, n) ==
    IF n = 0 THEN {<<>>}
    ELSE LET shorter == SeqsUpTo(S, n - 1)
         IN  shorter \cup {Append(s, x) : s \in shorter, x \in S}

\* what model.generate_content and the JSON extraction give the loop:
\* "raise" is any exception of lines 213-228 (API error, no JSON, bad JSON)
RaisingResponse == [kind |-> "raise", questions |-> <<>>]
Parsed(cands) == [kind |-> "data", questions |-> cands]

WellFormedBatch(n) == Parsed([i \in 1..n |-> WellFormed(i)])

NumQuestions(is_practice_mode) ==
    IF ~is_practice_mode THEN TEST_MODE_QUESTIONS ELSE PRACTICE_MODE_QUESTIONS_PER_SET

\* the sizes of the well-formed batches a request may get: the count it asked
\* for, and for a practice page up to MaxOver times as many
BatchSizes(is_practice_mode) ==
    IF is_practice_mode
    THEN {k * PRACTICE_MODE_QUESTIONS_PER_SET : k \in 1..MaxOver}
    ELSE {TEST_MODE_QUESTIONS}

\* remote outputs for the request flow: an exception, no candidate, one valid
\* candidate, and the well-formed batches
Responses ==
    [is_practice_mode \in BOOLEAN |->
        {RaisingResponse, Parsed(<<>>), Parsed(<<GoodShuffled>>)}
        \cup {WellFormedBatch(n) : n \in BatchSizes(is_practice_mode)}]

\* one practice page of well-formed questions, with texts of their own
FirstPage == [i \in 1..PRACTICE_MODE_QUESTIONS_PER_SET |-> WellFormed(i + 3)]

\* remote outputs for the candidate checks: every batch of up to MaxBatch
\* candidates
LoopResponses ==
    {RaisingResponse} \cup {Parsed(cands) : cands \in SeqsUpTo(Candidates, MaxBatch)}

\* the same batches, each after a page of well-formed questions: the page is
\* accepted when it comes first and skipped as already used from then on
ItemResponses ==
    {RaisingResponse}
    \cup {Parsed(FirstPage \o cands) : cands \in SeqsUpTo(Candidates, MaxBatch)}

\* ------------------------------------------------------------------------
\* generate_quiz_questions

Fields == {"question", "options", "answer", "explanation"}

\* line 232: all(k in q for k in [...])
HasAllFields(q) == \A k \in Fields : q[k].t # "absent"

\* line 235: len(q["options"]) != 4
WrongOptionCount(q) == Len(q.options.v) # 4

\* line 238: q["question"] in used_questions, on the text as the remote sent it
AlreadyUsed(q, used) == q.question.t = "str" /\ q.question.v \in used

\* lines 241-246: .strip() of a value that is no str raises AttributeError
StripRaises(q) ==
    \/ q.question.t # "str"
    \/ \E i \in 1..Len(q.options.v) : q.options.v[i].t # "str"
    \/ q.answer.t # "str"
    \/ q.explanation.t # "str"

\* lines 241-249: the QuizQuestion built from the stripped fields
CleanedQuestion(q) ==
    [question |-> Strip(q.question.v),
     options |-> [i \in 1..Len(q.options.v) |-> Strip(q.options.v[i].v)],
     answer |-> Strip(q.answer.v),
     explanation |-> Strip(q.explanation.v)]

\* line 251 left out: any answer passes
AnswerAmongOptions_Unchecked(question) == TRUE

\* line 251: question.answer not in question.options
AnswerAmongOptions(question) == question.answer \in SeqToSet(question.options)

\* line 254: random.shuffle gives any order of the same options
OptionOrders == Permutations(1..4)
Shuffles(options) ==
    IF \A i \in 1..4 : options[i] = options[1]
    THEN {options}  \* every order of equal options is the same list
    ELSE {[i \in 1..4 |-> options[p[i]]] : p \in OptionOrders}

\* lines 232-252: what the loop body does with candidate q: "skip" is a
\* continue, "raise" an exception outside the inner try (len() of an int,
\* .strip() of a value that is no str), "accept" reaches line 254
Verdict(q, used) ==
    IF ~HasAllFields(q) THEN "skip"
    ELSE IF q.options.t = "int" THEN "raise"
    ELSE IF WrongOptionCount(q) THEN "skip"
    ELSE IF AlreadyUsed(q, used) THEN "skip"
    ELSE IF StripRaises(q) THEN "raise"
    ELSE IF ~AnswerAmongOptions(CleanedQuestion(q)) THEN "skip"
    ELSE "accept"

\* lines 232-260: one pass of the loop body over candidate q from the loop
\* state o = [raised, questions, used]; the result is the set of possible
\* loop states after it, one per outcome of the shuffle. An exception outside
\* the inner try ends the loop: raised = TRUE, and used_questions stays as the
\* candidates accepted before it made it.
LoopBody(q, o) ==
    LET verdict == IF o.raised THEN "raised" ELSE Verdict(q, o.used)
        question == CleanedQuestion(q)
    IN  CASE verdict = "raised" -> {o}
          [] verdict = "skip" -> {o}
          [] verdict = "raise" -> {[o EXCEPT !.raised = TRUE]}
          [] verdict = "accept" ->
               {[raised |-> FALSE,
                 questions |-> Append(o.questions, [question EXCEPT !.options = shuffled]),
                 used |-> o.used \cup {question.question}]
                : shuffled \in Shuffles(question.options)}

\* the possible loop states after candidates lo..hi, in order, from the loop
\* state o (the range is halved to keep the evaluation shallow)
RECURSIVE LoopOver(_, _, _, _)
LoopOver(cands, lo, hi, o) ==
    IF lo > hi THEN {o}
    ELSE IF lo = hi THEN LoopBody(cands[lo], o)
    ELSE UNION {LoopOver(cands, ((lo + hi) \div 2) + 1, hi, first)
                : first \in LoopOver(cands, lo, (lo + hi) \div 2, o)}

\* lines 230-263: the loop over all the candidates
ProcessQuestions(cands, used) ==
    LoopOver(cands, 1, Len(cands), [raised |-> FALSE, questions |-> <<>>, used |-> used])

\* lines 198-211: the part of the prompt that depends on the arguments
ContentPrompt(text_content, topic, concepts, num_questions) ==
    IF Truthy(text_content)
    THEN [source |-> "content", num |-> num_questions, body |-> text_content.v, about |-> <<>>]
    ELSE IF Truthy(concepts)
    THEN [source |-> "concepts", num |-> num_questions, body |-> concepts.v, about |-> Render(topic)]
    ELSE [source |-> "topic", num |-> num_questions, body |-> <<>>, about |-> Render(topic)]

\* lines 102-267: the possible results [ret, questions, used, prompt] of
\* one call with the remote output `response`; ret = "none" is the None of line
\* 267, used is used_questions after the call
generate_quiz_questions(text_content, topic, concepts, is_practice_mode, response, used) ==
    LET prompt == ContentPrompt(text_content, topic, concepts, NumQuestions(is_practice_mode))
    IN  IF response.kind = "raise"
        THEN {[ret |-> "none", questions |-> <<>>, used |-> used, prompt |-> prompt]}
        ELSE {[ret |-> IF o.raised THEN "none" ELSE "list",
               questions |-> IF o.raised THEN <<>> ELSE o.questions,
               used |-> o.used,
               prompt |-> prompt] : o \in ProcessQuestions(response.questions, used)}

\* ------------------------------------------------------------------------
\* Lines 213-228: from the text of the remote model to response_data

Quote == "\""
Newline == "\n"

\* the characters the pattern [\x00-\x1F\x7F-\x9F] of line 220 matches, among
\* those the model uses
ControlChars == {Newline}

\* \s of line 221 and the whitespace json.loads skips
WhiteSpace == {Space, Newline}

\* the first index from i on whose character is in the set chars, Len(s) + 1 if none
FirstIn(s, i, chars) ==
    LET found == {k \in i..Len(s) : s[k] \in chars}
    IN  IF found = {} THEN Len(s) + 1 ELSE CHOOSE k \in found : \A m \in found : k <= m

\* the first index from i on whose character is not in the set chars
FirstNotIn(s, i, chars) ==
    LET found == {k \in i..Len(s) : s[k] \notin chars}
    IN  IF found = {} THEN Len(s) + 1 ELSE CHOOSE k \in found : \A m \in found : k <= m

\* line 216: re.search(r'({[\s\S]*})'), from the first { to the last };
\* <<>> when there is no match
SearchJson(response_text) ==
    LET opens == {k \in 1..Len(response_text) : response_text[k] = "{"}
        first == FirstIn(response_text, 1, {"{"})
        closes == {k \in (first + 1)..Len(response_text) : response_text[k] = "}"}
    IN  IF opens = {} \/ closes = {} THEN <<>>
        ELSE SubSeq(response_text, first, CHOOSE k \in closes : \A m \in closes : m <= k)

\* line 220: the control characters removed
RemoveControl(json_text) == SelectSeq(json_text, LAMBDA c : c \notin ControlChars)

\* line 221: re.sub(r',(\s*[}\]])', r'\1'): every comma whose next character
\* after whitespace is } or ] is deleted, wherever it stands
RemoveTrailingCommas(cleaned_json) ==
    LET matched(k) ==
            /\ cleaned_json[k] = ","
            /\ LET next == FirstNotIn(cleaned_json, k + 1, WhiteSpace)
               IN  next <= Len(cleaned_json) /\ cleaned_json[next] \in {"}", "]"}
        kept == {k \in 1..Len(cleaned_json) : ~matched(k)}
        \* the k-th kept index
        nth[k \in 1..Cardinality(kept)] ==
            CHOOSE i \in kept : Cardinality({m \in kept : m <= i}) = k
    IN  [k \in 1..Cardinality(kept) |-> cleaned_json[nth[k]]]

\* json.loads (line 224) on objects, arrays, strings without escapes and
\* unsigned integers: a parse gives [ok, v, next], next the index after the value
JObject(members) == [t |-> "object", v |-> members]
ParseFail == [ok |-> FALSE, v |-> JAbsent, next |-> 0]
DigitChars == {Digits[i] : i \in 1..Len(Digits)}

RECURSIVE ParseValue(_, _), ParseElements(_, _, _), ParseMembers(_, _, _)

\* the value that starts at index from, after whitespace
ParseValue(s, from) ==
    LET i == FirstNotIn(s, from, WhiteSpace)
    IN  IF i > Len(s) THEN ParseFail
        ELSE IF s[i] = Quote
        THEN LET j == FirstIn(s, i + 1, {Quote})
             IN  IF j > Len(s) \/ \E k \in (i + 1)..(j - 1) : s[k] \in ControlChars
                 THEN ParseFail
                 ELSE [ok |-> TRUE, v |-> JStr(SubSeq(s, i + 1, j - 1)), next |-> j + 1]
        ELSE IF s[i] \in DigitChars
        THEN LET j == FirstNotIn(s, i, DigitChars)
             IN  [ok |-> TRUE, v |-> JInt(SubSeq(s, i, j - 1)), next |-> j]
        ELSE IF s[i] = "["
        THEN LET k == FirstNotIn(s, i + 1, WhiteSpace)
             IN  IF k <= Len(s) /\ s[k] = "]"
                 THEN [ok |-> TRUE, v |-> JList(<<>>), next |-> k + 1]
                 ELSE ParseElements(s, i + 1, <<>>)
        ELSE IF s[i] = "{"
        THEN LET k == FirstNotIn(s, i + 1, WhiteSpace)
             IN  IF k <= Len(s) /\ s[k] = "}"
                 THEN [ok |-> TRUE, v |-> JObject(<<>>), next |-> k + 1]
                 ELSE ParseMembers(s, i + 1, <<>>)
        ELSE ParseFail

\* the elements of an array from index from on, elems being those before
ParseElements(s, from, elems) ==
    LET e == ParseValue(s, from)
        k == FirstNotIn(s, e.next, WhiteSpace)
    IN  IF ~e.ok \/ k > Len(s) THEN ParseFail
        ELSE IF s[k] = "," THEN ParseElements(s, k + 1, Append(elems, e.v))
        ELSE IF s[k] = "]"
        THEN [ok |-> TRUE, v |-> JList(Append(elems, e.v)), next |-> k + 1]
        ELSE ParseFail

\* the members of an object from index from on, members being those before
ParseMembers(s, from, members) ==
    LET key == ParseValue(s, from)
        colon == FirstNotIn(s, key.next, WhiteSpace)
        e == ParseValue(s, colon + 1)
        k == FirstNotIn(s, e.next, WhiteSpace)
        member == [key |-> key.v.v, value |-> e.v]
    IN  IF ~key.ok \/ key.v.t # "str" \/ colon > Len(s) THEN ParseFail
        ELSE IF s[colon] # ":" \/ ~e.ok \/ k > Len(s) THEN ParseFail
        ELSE IF s[k] = "," THEN ParseMembers(s, k + 1, Append(members, member))
        ELSE IF s[k] = "}"
        THEN [ok |-> TRUE, v |-> JObject(Append(members, member)), next |-> k + 1]
        ELSE ParseFail

\* json.loads: one value and nothing but whitespace after it
JsonLoads(s) ==
    LET parsed == ParseValue(s, 1)
    IN  IF parsed.ok /\ FirstNotIn(s, parsed.next, WhiteSpace) > Len(s)
        THEN parsed ELSE ParseFail

\* obj[key] of a parsed object, the last member of that name; JAbsent when
\* there is none
Member(obj, key) ==
    LET named == {k \in 1..Len(obj.v) : obj.v[k].key = key}
    IN  IF named = {} THEN JAbsent
        ELSE obj.v[CHOOSE k \in named : \A m \in named : m <= k].value

KeyQuestions == <<"q", "u", "e", "s", "t", "i", "o", "n", "s">>
KeyQuestion == <<"q", "u", "e", "s", "t", "i", "o", "n">>
KeyOptions == <<"o", "p", "t", "i", "o", "n", "s">>
KeyAnswer == <<"a", "n", "s", "w", "e", "r">>
KeyExplanation == <<"e", "x", "p", "l", "a", "n", "a", "t", "i", "o", "n">>

\* the candidate q of line 231 for one element of the list; an element that
\* is no object holds none of the keys
AsCandidate(elem) ==
    IF elem.t # "object" THEN Candidate(JAbsent, JAbsent, JAbsent, JAbsent)
    ELSE Candidate(Member(elem, KeyQuestion), Member(elem, KeyOptions),
                   Member(elem, KeyAnswer), Member(elem, KeyExplanation))

\* lines 213-231: what the loop gets for the text of the remote model; no
\* JSON found, a parse error and a document that is no object are exceptions
ParseResponse(text) ==
    LET json_text == SearchJson(Strip(text))
        cleaned_json == RemoveTrailingCommas(RemoveControl(json_text))
        response_data == JsonLoads(cleaned_json)
        questions == Member(response_data.v, KeyQuestions)
    IN  IF json_text = <<>> \/ ~response_data.ok \/ response_data.v.t # "object"
        THEN RaisingResponse
        ELSE IF questions.t # "list" THEN Parsed(<<>>)
        ELSE Parsed([i \in 1..Len(questions.v) |-> AsCandidate(questions.v[i])])

\* ------------------------------------------------------------------------
\* State

VARIABLES
    question_cache,      \* line 38: the queue of generated, unserved questions
    used_questions,      \* line 39: the question texts accepted so far
    file_content_cache,  \* line 41: path -> content
    concept_cache,       \* line 42: path -> key concepts
    processed_files,     \* line 43: the paths read_and_process_content was called for
    request,             \* the last request handled
    response,            \* the response to it
    gen,                 \* what the last request did by way of generation
    served,              \* the question texts returned since the last clear-cache
    clears,              \* the clear-cache calls since the last /quiz/next (at most
                         \* MaxClears are counted), and whether the first of them found
                         \* all five caches filled
    extract_calls,       \* path -> the extract_key_concepts calls made for it since
                         \* the last clear-cache (at most MaxExtracts are counted)
    threads,             \* the requests being handled by the threads of the server:
                         \* the line each has reached and its local variables
    output,              \* the text of the remote model for the direct call, with
                         \* the question it holds
    call                 \* the last direct call of generate_quiz_questions: its remote
                         \* output, used_questions before it, and its result

caches == <<question_cache, used_questions, file_content_cache, concept_cache, processed_files>>
vars == <<question_cache, used_questions, file_content_cache, concept_cache, processed_files,
          request, response, gen, served, clears, extract_calls, threads, output, call>>

EmptyMap == [p \in {} |-> <<>>]
Put(map, key, value) == [k \in DOMAIN map \cup {key} |-> IF k = key THEN value ELSE map[k]]
\* dict.get(key): None when the key is absent
Get(map, key) == IF key \in DOMAIN map THEN Some(map[key]) ELSE None

NoPrompt == [source |-> "none", num |-> 0, body |-> <<>>, about |-> <<>>]
NoGen == [calls |-> 0, ret |-> "none", accepted |-> 0, prompt |-> NoPrompt,
          content |-> None, concepts |-> None]
NoCounts == [cache_size |-> 0, used_questions |-> 0, file_cache_size |-> 0,
             concept_cache_size |-> 0, processed_files |-> 0]
Reply(op, status, error) ==
    [op |-> op, status |-> status, error |-> error, questions |-> <<>>,
     should_fetch |-> FALSE, total_questions |-> 0, counts |-> NoCounts]

NoCall == [made |-> FALSE, remote |-> RaisingResponse, used |-> {}, ret |-> "none",
           questions |-> <<>>]

NoClears == [calls |-> 0, filled |-> FALSE]

\* all five caches hold something
AllFilled ==
    /\ question_cache # <<>>
    /\ used_questions # {}
    /\ DOMAIN file_content_cache # {}
    /\ DOMAIN concept_cache # {}
    /\ processed_files # {}

\* the threads that handle requests (app.run serves each request in a thread)
Threads == {1, 2}
Idle == [pc |-> "idle", is_practice_mode |-> TRUE, questions_to_send |-> <<>>, deleted |-> <<>>]
NoThreads == [t \in Threads |-> Idle]

NoOutput == [text |-> <<>>, question |-> Candidate(JAbsent, JAbsent, JAbsent, JAbsent),
             comma |-> 0]

NoRequest == [op |-> "none", topic |-> <<>>, current_index |-> [t |-> "int", n |-> 0],
              is_practice_mode |-> TRUE]

Init ==
    /\ question_cache = <<>>
    /\ used_questions = {}
    /\ file_content_cache = EmptyMap
    /\ concept_cache = EmptyMap
    /\ processed_files = {}
    /\ request = NoRequest
    /\ response = Reply("none", 200, "")
    /\ gen = NoGen
    /\ served = {}
    /\ clears = NoClears
    /\ extract_calls = EmptyMap
    /\ threads = NoThreads
    /\ output = NoOutput
    /\ call = NoCall

\* ------------------------------------------------------------------------
\* Inputs of /quiz/next

\* urllib.parse.unquote on the one escape the model sends
Unquote(s) == [i \in 1..Len(s) |-> IF s[i] = "%20" THEN Space ELSE s[i]]

TopicArgs == {<<>>, <<"%20", "t">>, <<"u">>}
\* the current_index argument: an integer literal, or text int() rejects
IndexArgs == {[t |-> "int", n |-> 0], [t |-> "int", n |-> TEST_MODE_QUESTIONS - 1],
              [t |-> "int", n |-> TEST_MODE_QUESTIONS], [t |-> "bad", n |-> 0]}
Standards == {"10"}
Subjects == {"science"}

\* line 295
FilePath(standard, subject, topic) == [standard |-> standard, subject |-> subject, topic |-> topic]

\* the content files on disk (os.path.exists, line 297)
FileSystem == {FilePath("10", "science", <<"t">>)}
FileExists(file_path) == file_path \in FileSystem

\* what open/read and extract_key_concepts give: ok = FALSE is an exception of
\* either (lines 76-78), else the content read and the concepts extracted;
\* extracted tells whether extract_key_concepts was called (line 78)
ReadOutcomes ==
    {[ok |-> FALSE, extracted |-> FALSE, content |-> <<>>, concepts |-> <<>>],
     [ok |-> FALSE, extracted |-> TRUE, content |-> <<>>, concepts |-> <<>>],
     [ok |-> TRUE, extracted |-> TRUE, content |-> <<"k">>, concepts |-> <<"c">>],
     [ok |-> TRUE, extracted |-> TRUE, content |-> <<>>, concepts |-> <<"c">>],
     [ok |-> TRUE, extracted |-> TRUE, content |-> <<"k">>, concepts |-> <<>>]}

\* the count of extract_key_concepts calls after read_and_process_content ran
\* for file_path with outcome rd
CountExtract(file_path, rd) ==
    IF rd.extracted
    THEN Put(extract_calls, file_path,
             Min((IF file_path \in DOMAIN extract_calls THEN extract_calls[file_path] ELSE 0) + 1,
                 MaxExtracts))
    ELSE extract_calls

\* line 298 left out: every existing file is read as a new one
AlreadyProcessed_Never(file_path, processed) == FALSE

\* line 298: file_path not in processed_files
AlreadyProcessed(file_path, processed) == file_path \in processed

\* lines 73-85: the value returned and the two caches after the call
read_and_process_content(file_path, rd) ==
    IF rd.ok
    THEN [content |-> Some(rd.content),
          concept_cache |-> Put(concept_cache, file_path, rd.concepts),
          file_content_cache |-> Put(file_content_cache, file_path, rd.content)]
    ELSE [content |-> None,
          concept_cache |-> concept_cache,
          file_content_cache |-> file_content_cache]

\* ------------------------------------------------------------------------
\* GET /quiz/next

\* line 292
QuestionsPerSet(is_practice_mode) ==
    IF is_practice_mode THEN PRACTICE_MODE_QUESTIONS_PER_SET ELSE TEST_MODE_QUESTIONS

\* line 285
BudgetSpent(is_practice_mode, current_index) ==
    ~is_practice_mode /\ current_index >= TEST_MODE_QUESTIONS

\* line 294 with <= for <: a queue of exactly one page is refilled
NeedsGeneration_AtOnePage(cache, questions_per_set) == Len(cache) <= questions_per_set

\* line 294
NeedsGeneration(cache, questions_per_set) == Len(cache) < questions_per_set

\* line 321 without the test for an empty list
GenerationFailed_OnlyNone(g) == g.ret = "none"

\* line 321: questions is None or len(questions) == 0
GenerationFailed(g) == g.ret = "none" \/ Len(g.questions) = 0

\* line 326: question_cache[:questions_per_set]
QuestionsToSend(cache, questions_per_set) ==
    SubSeq(cache, 1, Min(questions_per_set, Len(cache)))

\* line 327 deleting one question less than line 326 took
AfterDelete_OneLess(cache, questions_per_set) ==
    SubSeq(cache, Min(questions_per_set, Len(cache)), Len(cache))

\* line 327: del question_cache[:questions_per_set]
AfterDelete(cache, questions_per_set) ==
    SubSeq(cache, Min(questions_per_set, Len(cache)) + 1, Len(cache))

\* line 334 with <= for <
ShouldFetch_UpToBudget(is_practice_mode, current_index, sent) ==
    IF is_practice_mode THEN TRUE ELSE current_index + sent <= TEST_MODE_QUESTIONS

\* line 334
ShouldFetch(is_practice_mode, current_index, sent) ==
    IF is_practice_mode THEN TRUE ELSE current_index + sent < TEST_MODE_QUESTIONS

\* line 335
TotalQuestions(is_practice_mode) == IF ~is_practice_mode THEN TEST_MODE_QUESTIONS ELSE -1

Texts(questions) == {questions[i].question : i \in 1..Len(questions)}

\* lines 326-336: serve one page from the queue `cache`
Serve(cache, questions_per_set, is_practice_mode, current_index) ==
    LET questions_to_send == QuestionsToSend(cache, questions_per_set)
    IN  /\ question_cache' = AfterDelete(cache, questions_per_set)
        /\ IF questions_to_send = <<>>
           THEN /\ response' = Reply("next", 500, "No questions available")
                /\ served' = served
           ELSE /\ response' =
                     [Reply("next", 200, "") EXCEPT
                        !.questions = questions_to_send,
                        !.should_fetch = ShouldFetch(is_practice_mode, current_index,
                                                     Len(questions_to_send)),
                        !.total_questions = TotalQuestions(is_practice_mode)]
                /\ served' = served \cup Texts(questions_to_send)

\* lines 302-324 after the call returned g: the caches as the call left them,
\* then the 500 of line 322 or the page
AfterGeneration(g, content, concepts, questions_per_set, is_practice_mode, current_index) ==
    /\ used_questions' = g.used
    /\ gen' = [calls |-> 1, ret |-> g.ret, accepted |-> Len(g.questions), prompt |-> g.prompt,
               content |-> content, concepts |-> concepts]
    /\ IF GenerationFailed(g)
       THEN /\ response' = Reply("next", 500, "Failed to generate questions")
            /\ UNCHANGED <<question_cache, served>>
       ELSE Serve(question_cache \o g.questions, questions_per_set,
                  is_practice_mode, current_index)

\* lines 271-340, one request with the given arguments; `remotes` is the set
\* of outputs the remote model may give to its generation call
get_next_questions(topic_arg, index_arg, standard, subject, is_practice_mode, remotes) ==
    LET raw_topic == Unquote(topic_arg)
        topic == Strip(raw_topic)
        current_index == index_arg.n
        questions_per_set == QuestionsPerSet(is_practice_mode)
        file_path == FilePath(standard, subject, topic)
    IN  /\ request' = [op |-> "next", topic |-> raw_topic, current_index |-> index_arg,
                       is_practice_mode |-> is_practice_mode]
        /\ clears' = NoClears
        /\ UNCHANGED threads
        /\ call' = NoCall
        /\ UNCHANGED output
        /\ IF index_arg.t # "int"
           THEN \* line 274 raises ValueError, caught at line 338
                /\ response' = Reply("next", 500, "invalid literal for int()")
                /\ gen' = NoGen
                /\ UNCHANGED <<caches, served, extract_calls>>
           ELSE IF raw_topic = <<>>
           THEN \* line 281
                /\ response' = Reply("next", 400, "Missing topic parameter")
                /\ gen' = NoGen
                /\ UNCHANGED <<caches, served, extract_calls>>
           ELSE IF BudgetSpent(is_practice_mode, current_index)
           THEN \* lines 286-290
                /\ response' = [Reply("next", 200, "") EXCEPT
                                  !.total_questions = TEST_MODE_QUESTIONS]
                /\ gen' = NoGen
                /\ UNCHANGED <<caches, served, extract_calls>>
           ELSE IF ~NeedsGeneration(question_cache, questions_per_set)
           THEN /\ gen' = NoGen
                /\ UNCHANGED <<used_questions, file_content_cache, concept_cache,
                               processed_files, extract_calls>>
                /\ Serve(question_cache, questions_per_set, is_practice_mode, current_index)
           ELSE IF FileExists(file_path) /\ ~AlreadyProcessed(file_path, processed_files)
           THEN \* lines 299-305
                \E rd \in ReadOutcomes, remote \in remotes :
                   LET read == read_and_process_content(file_path, rd)
                   IN  /\ concept_cache' = read.concept_cache
                       /\ file_content_cache' = read.file_content_cache
                       /\ processed_files' = processed_files \cup {file_path}
                       /\ extract_calls' = CountExtract(file_path, rd)
                       /\ \E g \in generate_quiz_questions(read.content, None, None,
                                      is_practice_mode, remote, used_questions) :
                             AfterGeneration(g, read.content,
                                             Get(read.concept_cache, file_path),
                                             questions_per_set, is_practice_mode,
                                             current_index)
           ELSE IF FileExists(file_path)
           THEN \* lines 307-313
                \E remote \in remotes :
                   LET concepts == Get(concept_cache, file_path)
                   IN  /\ UNCHANGED <<file_content_cache, concept_cache, processed_files,
                                      extract_calls>>
                       /\ \E g \in generate_quiz_questions(None, Some(topic), concepts,
                                      is_practice_mode, remote, used_questions) :
                             AfterGeneration(g, None, concepts, questions_per_set,
                                             is_practice_mode, current_index)
           ELSE \* lines 315-319
                \E remote \in remotes :
                   /\ UNCHANGED <<file_content_cache, concept_cache, processed_files,
                                  extract_calls>>
                   /\ \E g \in generate_quiz_questions(None, Some(topic), None,
                                  is_practice_mode, remote, used_questions) :
                         AfterGeneration(g, None, None, questions_per_set,
                                         is_practice_mode, current_index)

\* ------------------------------------------------------------------------
\* GET /quiz/clear-cache (lines 346-355)

\* lines 346-355 without line 352: processed_files is kept
clear_cache_KeepingProcessedFiles ==
    /\ question_cache' = <<>>
    /\ used_questions' = {}
    /\ file_content_cache' = EmptyMap
    /\ concept_cache' = EmptyMap
    /\ processed_files' = processed_files
    /\ request' = [op |-> "clear", topic |-> <<>>, current_index |-> [t |-> "int", n |-> 0],
                   is_practice_mode |-> TRUE]
    /\ response' = Reply("clear", 200, "")
    /\ gen' = NoGen
    /\ served' = {}
    /\ extract_calls' = EmptyMap
    /\ UNCHANGED threads
    /\ clears' = [calls |-> Min(clears.calls + 1, MaxClears),
                  filled |-> IF clears.calls = 0 THEN AllFilled ELSE clears.filled]
    /\ call' = NoCall
    /\ UNCHANGED output

clear_cache ==
    /\ question_cache' = <<>>
    /\ used_questions' = {}
    /\ file_content_cache' = EmptyMap
    /\ concept_cache' = EmptyMap
    /\ processed_files' = {}
    /\ request' = [op |-> "clear", topic |-> <<>>, current_index |-> [t |-> "int", n |-> 0],
                   is_practice_mode |-> TRUE]
    /\ response' = Reply("clear", 200, "")
    /\ gen' = NoGen
    /\ served' = {}
    /\ extract_calls' = EmptyMap
    /\ UNCHANGED threads
    /\ clears' = [calls |-> Min(clears.calls + 1, MaxClears),
                  filled |-> IF clears.calls = 0 THEN AllFilled ELSE clears.filled]
    /\ call' = NoCall
    /\ UNCHANGED output

\* ------------------------------------------------------------------------
\* GET /quiz/status (lines 357-366)

get_status ==
    /\ request' = [op |-> "status", topic |-> <<>>, current_index |-> [t |-> "int", n |-> 0],
                   is_practice_mode |-> TRUE]
    /\ response' = [Reply("status", 200, "") EXCEPT
                      !.counts = [cache_size |-> Len(question_cache),
                                  used_questions |-> Cardinality(used_questions),
                                  file_cache_size |-> Cardinality(DOMAIN file_content_cache),
                                  concept_cache_size |-> Cardinality(DOMAIN concept_cache),
                                  processed_files |-> Cardinality(processed_files)]]
    /\ gen' = NoGen
    /\ call' = NoCall
    /\ UNCHANGED output
    /\ UNCHANGED <<caches, served, clears, extract_calls, threads>>

\* /quiz/next with every combination of arguments, the remote model giving
\* well-formed batches
NextQuestions ==
    \E topic_arg \in TopicArgs, index_arg \in IndexArgs, standard \in Standards,
       subject \in Subjects, is_practice_mode \in BOOLEAN :
       get_next_questions(topic_arg, index_arg, standard, subject, is_practice_mode,
                          Responses[is_practice_mode])

Next == NextQuestions \/ clear_cache \/ get_status

Spec == Init /\ [][Next]_vars

\* /quiz/next for a practice page about a topic without content file, the
\* remote model giving any batch of candidates
NextQuestionsItems ==
    \E standard \in Standards, subject \in Subjects :
       get_next_questions(<<"u">>, [t |-> "int", n |-> 0], standard, subject, TRUE,
                          ItemResponses)

NextItems == NextQuestionsItems \/ clear_cache \/ get_status

SpecItems == Init /\ [][NextItems]_vars

\* the remote model as the prompt instructs it: it writes questions about the
\* topic and for the mode (test: "s", practice: "p") of the request it serves,
\* which the text of each question names, and one practice page more than asked
ModeTag(is_practice_mode) == IF is_practice_mode THEN "p" ELSE "s"

TaggedText(topic, is_practice_mode, i) == topic \o <<ModeTag(is_practice_mode)>> \o QText(i)

TaggedBatchSize(is_practice_mode) ==
    NumQuestions(is_practice_mode) + PRACTICE_MODE_QUESTIONS_PER_SET

TaggedBatch(topic, is_practice_mode, round) ==
    Parsed([i \in 1..TaggedBatchSize(is_practice_mode) |->
               Candidate(JStr(TaggedText(topic, is_practice_mode,
                                         round * TaggedBatchSize(is_practice_mode) + i)),
                         SameOptions, JStr(OptX), Explanation)])

TaggedTopicArgs == {<<"u">>, <<"v">>}

\* /quiz/next for topics without content file, in both modes, the remote model
\* writing questions about the topic and for the mode of the request
NextQuestionsTopics ==
    \E topic_arg \in TaggedTopicArgs, standard \in Standards, subject \in Subjects,
       is_practice_mode \in BOOLEAN, round \in 0..(MaxRounds - 1) :
       get_next_questions(topic_arg, [t |-> "int", n |-> 0], standard, subject,
                          is_practice_mode,
                          {TaggedBatch(Strip(Unquote(topic_arg)), is_practice_mode, round)})

NextTopics == NextQuestionsTopics \/ clear_cache \/ get_status

SpecTopics == Init /\ [][NextTopics]_vars

\* ------------------------------------------------------------------------
\* /quiz/next handled by several threads at once: each thread runs the lines of
\* get_next_questions in order, and another thread may run between two of them.
\* The requests are for a topic without content file, at index 0.

\* lines 273-294 of a new request: no generation when the queue holds a page
Begin(t) ==
    /\ threads[t].pc = "idle"
    /\ \E is_practice_mode \in BOOLEAN :
          threads' = [threads EXCEPT ![t] =
             [Idle EXCEPT !.is_practice_mode = is_practice_mode,
                          !.pc = IF NeedsGeneration(question_cache,
                                                    QuestionsPerSet(is_practice_mode))
                                 THEN "generate" ELSE "slice"]]
    /\ UNCHANGED <<caches, request, response, gen, served, clears, extract_calls, call, output>>

\* lines 315-324: the generation call, then the 500 of line 322 or the queue
\* extended
Generate(t) ==
    /\ threads[t].pc = "generate"
    /\ \E remote \in Responses[threads[t].is_practice_mode] :
          \E g \in generate_quiz_questions(None, Some(<<"u">>), None,
                       threads[t].is_practice_mode, remote, used_questions) :
             /\ used_questions' = g.used
             /\ IF GenerationFailed(g)
                THEN /\ threads' = [threads EXCEPT ![t] = Idle]
                     /\ UNCHANGED question_cache
                ELSE /\ threads' = [threads EXCEPT ![t].pc = "slice"]
                     /\ question_cache' = question_cache \o g.questions
    /\ UNCHANGED <<file_content_cache, concept_cache, processed_files, request, response,
                   gen, served, clears, extract_calls, call, output>>

\* line 326
Slice(t) ==
    /\ threads[t].pc = "slice"
    /\ threads' = [threads EXCEPT
          ![t].pc = "delete",
          ![t].questions_to_send =
              QuestionsToSend(question_cache, QuestionsPerSet(threads[t].is_practice_mode))]
    /\ UNCHANGED <<caches, request, response, gen, served, clears, extract_calls, call, output>>

\* line 327; deleted is what the statement removes from the queue
Delete(t) ==
    /\ threads[t].pc = "delete"
    /\ question_cache' =
          AfterDelete(question_cache, QuestionsPerSet(threads[t].is_practice_mode))
    /\ threads' = [threads EXCEPT
          ![t].pc = "reply",
          ![t].deleted =
              QuestionsToSend(question_cache, QuestionsPerSet(threads[t].is_practice_mode))]
    /\ UNCHANGED <<used_questions, file_content_cache, concept_cache, processed_files,
                   request, response, gen, served, clears, extract_calls, call, output>>

\* lines 329-336: the response carries questions_to_send
SendReply(t) ==
    /\ threads[t].pc = "reply"
    /\ threads' = [threads EXCEPT ![t] = Idle]
    /\ served' = served \cup Texts(threads[t].questions_to_send)
    /\ UNCHANGED <<caches, request, response, gen, clears, extract_calls, call, output>>

NextThreads ==
    \E t \in Threads : Begin(t) \/ Generate(t) \/ Slice(t) \/ Delete(t) \/ SendReply(t)

SpecThreads == Init /\ [][NextThreads]_vars

\* generate_quiz_questions by itself: used_questions is any set of the
\* candidates' texts, and the function is called once about a topic, as lines
\* 316-319 call it, with any batch of candidates
InitLoop ==
    /\ used_questions \in SUBSET {QText(1), QText(2), QText(3)}
    /\ question_cache = <<>>
    /\ file_content_cache = EmptyMap
    /\ concept_cache = EmptyMap
    /\ processed_files = {}
    /\ request = NoRequest
    /\ response = Reply("none", 200, "")
    /\ gen = NoGen
    /\ served = {}
    /\ clears = NoClears
    /\ extract_calls = EmptyMap
    /\ threads = NoThreads
    /\ output = NoOutput
    /\ call = NoCall

GenerateCall ==
    /\ ~call.made
    /\ \E remote \in LoopResponses :
          \E g \in generate_quiz_questions(None, Some(<<"u">>), None, TRUE, remote,
                                           used_questions) :
             /\ used_questions' = g.used
             /\ call' = [made |-> TRUE, remote |-> remote, used |-> used_questions,
                         ret |-> g.ret, questions |-> g.questions]
             /\ UNCHANGED <<question_cache, file_content_cache, concept_cache,
                            processed_files, request, response, gen, served, clears,
                            extract_calls, threads, output>>

NextLoop == GenerateCall

SpecLoop == InitLoop /\ [][NextLoop]_vars

\* ------------------------------------------------------------------------
\* Lines 213-263 by themselves: the text of the remote model is a JSON
\* document holding one valid question, written as json.dumps writes it but for
\* one trailing comma, and generate_quiz_questions is called once with it

\* {"questions":[{"question":"
DocOpening ==
    <<"{", Quote, "q", "u", "e", "s", "t", "i", "o", "n", "s", Quote, ":", "[", "{", Quote,
      "q", "u", "e", "s", "t", "i", "o", "n", Quote, ":", Quote>>

\* ","options":["x","x","x","x"
DocOptions ==
    <<Quote, ",", Quote, "o", "p", "t", "i", "o", "n", "s", Quote, ":", "[", Quote, "x",
      Quote, ",", Quote, "x", Quote, ",", Quote, "x", Quote, ",", Quote, "x", Quote>>

\* ],"answer":"x","explanation":"e"
DocAnswer ==
    <<"]", ",", Quote, "a", "n", "s", "w", "e", "r", Quote, ":", Quote, "x", Quote, ",",
      Quote, "e", "x", "p", "l", "a", "n", "a", "t", "i", "o", "n", Quote, ":", Quote, "e",
      Quote>>

\* the question texts the documents hold
RepairTexts == {<<"q">>, <<"a", ",", "]">>, <<"a", ",", Space, "}">>}

\* a trailing comma, alone or with whitespace after it
TrailingCommas == {<<",">>, <<",", Space>>, <<",", Newline>>}

\* where the trailing comma stands: 0 nowhere, 1 after the last option, 2 after
\* the last member of the question, 3 after the question, 4 after the list
CommaPlaces == 0..4

\* the text: fenced is a code fence around the document
OutputText(text, comma, place, fenced) ==
    LET at(n) == IF place = n THEN comma ELSE <<>>
    IN  (IF fenced THEN <<"~", Newline>> ELSE <<>>)
        \o DocOpening \o text \o DocOptions \o at(1) \o DocAnswer \o at(2)
        \o <<"}">> \o at(3) \o <<"]">> \o at(4) \o <<"}">>
        \o (IF fenced THEN <<Newline, "~">> ELSE <<>>)

RepairOutputs ==
    {[text |-> OutputText(text, comma, place, fenced),
      question |-> Candidate(JStr(text), SameOptions, JStr(OptX), Explanation),
      comma |-> place]
     : text \in RepairTexts, comma \in TrailingCommas, place \in CommaPlaces,
       fenced \in BOOLEAN}

InitRepair ==
    /\ used_questions \in SUBSET {<<"q">>, <<"a", "]">>}
    /\ output \in RepairOutputs
    /\ question_cache = <<>>
    /\ file_content_cache = EmptyMap
    /\ concept_cache = EmptyMap
    /\ processed_files = {}
    /\ request = NoRequest
    /\ response = Reply("none", 200, "")
    /\ gen = NoGen
    /\ served = {}
    /\ clears = NoClears
    /\ extract_calls = EmptyMap
    /\ threads = NoThreads
    /\ call = NoCall

RepairCall ==
    /\ ~call.made
    /\ LET remote == ParseResponse(output.text)
       IN  \E g \in generate_quiz_questions(None, Some(<<"u">>), None, TRUE, remote,
                                            used_questions) :
              /\ used_questions' = g.used
              /\ call' = [made |-> TRUE, remote |-> remote, used |-> used_questions,
                          ret |-> g.ret, questions |-> g.questions]
              /\ UNCHANGED <<question_cache, file_content_cache, concept_cache,
                             processed_files, request, response, gen, served, clears,
                             extract_calls, threads, output>>

NextRepair == RepairCall

SpecRepair == InitRepair /\ [][NextRepair]_vars

\* ------------------------------------------------------------------------
\* Properties

\* C1: in every reachable state, every question held in question_cache and every
\* question returned by /quiz/next has exactly 4 options and an answer equal to
\* one of those 4 options, also after the shuffle, whatever the remote model
\* returned.
C1_QuestionsWellFormed ==
    \A questions \in {question_cache, response.questions} :
       \A i \in 1..Len(questions) :
          /\ Len(questions[i].options) = 4
          /\ \E k \in 1..4 : questions[i].options[k] = questions[i].answer

\* C1's case: a page was returned while the queue holds the question made from
\* GoodShuffled with its options in another order than the remote model gave
C1_ShuffledQuestionQueued ==
    /\ response.op = "next"
    /\ Len(response.questions) = PRACTICE_MODE_QUESTIONS_PER_SET
    /\ \E i \in 1..Len(question_cache) :
          /\ question_cache[i].question = QText(1)
          /\ question_cache[i].options # MixedOptions
          /\ question_cache[i].answer = OptY

\* C2: with no clear-cache in between, no two questions returned by /quiz/next,
\* in the same response or in different responses, carry the same question text
\* as returned (served holds the texts returned since the last clear-cache).
C2_NoTextReturnedTwice ==
    [][(response'.op = "next" /\ response'.status = 200) =>
          /\ \A i, j \in 1..Len(response'.questions) :
                i # j => response'.questions[i].question # response'.questions[j].question
          /\ Texts(response'.questions) \cap served = {}]_vars

\* C3: in one call of generate_quiz_questions whose remote output parsed, a
\* candidate that violates a check is skipped and never makes the batch fail:
\* the call returns a list, and every candidate that passes every check
\* against used_questions as they were before the call has its question in it.
C3_BadCandidateOnlySkipped ==
    (call.made /\ call.remote.kind = "data") =>
       /\ call.ret = "list"
       /\ \A i \in 1..Len(call.remote.questions) :
             Verdict(call.remote.questions[i], call.used) = "accept" =>
                \E j \in 1..Len(call.questions) :
                   call.questions[j].question = Strip(call.remote.questions[i].question.v)


\* C4 as stated: every successful /quiz/next response returns exactly one page,
\* 5 questions in practice mode and 25 in test mode, whatever number of
\* questions the generation step accepted.
C4_ExactlyOnePage ==
    (response.op = "next" /\ response.status = 200) =>
       Len(response.questions) = QuestionsPerSet(request.is_practice_mode)

\* C4 amended: a successful /quiz/next response to a test-mode request whose
\* budget is spent returns no question and leaves the queue alone; every other
\* successful response returns, in queue order, the first min(page, n)
\* questions of the queue as extended by the generation step, n >= 1 being the
\* length of that extended queue, and leaves the rest queued: exactly one page
\* only when n is at least the page size (page: 5 in practice mode, 25 in test mode).
C4_OnePageOrWholeQueue ==
    [][(response'.op = "next" /\ response'.status = 200) =>
          LET page == QuestionsPerSet(request'.is_practice_mode)
              returned == response'.questions
              extended == Len(question_cache) + gen'.accepted
          IN  IF BudgetSpent(request'.is_practice_mode, request'.current_index.n)
              THEN returned = <<>> /\ question_cache' = question_cache
              ELSE /\ extended >= 1
                   /\ Len(returned) = Min(page, extended)
                   /\ Len(returned) + Len(question_cache') = extended
                   /\ \A i \in 1..Len(question_cache) :
                         (returned \o question_cache')[i] = question_cache[i]]_vars

\* C4's case: a test-mode request found 5 questions queued, its generation
\* step accepted 15, and the response returned the 20 there were
C4_ShortPageReturned ==
    /\ response.op = "next"
    /\ response.status = 200
    /\ ~request.is_practice_mode
    /\ gen.accepted = 15
    /\ Len(response.questions) = 20
    /\ question_cache = <<>>

\* C5: a /quiz/next request that attempts generation returns the 500
\* generation-failure error exactly when generation yields no accepted question
\* (None or an empty list); whenever generation accepts at least one question
\* the response is a success with a non-empty question list.
C5_FailureIffNothingAccepted ==
    (response.op = "next" /\ gen.calls = 1) =>
       /\ (response.status = 500 /\ response.error = "Failed to generate questions")
             <=> (gen.ret = "none" \/ gen.accepted = 0)
       /\ gen.accepted >= 1 => (response.status = 200 /\ response.questions # <<>>)

\* C5's case: generation accepted fewer questions than the page asked for and
\* the response is a success
C5_FewerThanRequestedServed ==
    /\ response.op = "next"
    /\ gen.calls = 1
    /\ gen.accepted \in 1..(PRACTICE_MODE_QUESTIONS_PER_SET - 1)
    /\ response.status = 200
    /\ response.questions # <<>>

\* C6: should_fetch is true on every successful practice-mode response; in test
\* mode it is true exactly while current_index plus the number of questions
\* returned is below 25; and a test-mode request with current_index >= 25 (that
\* names a topic) gets an empty question list with should_fetch false.
C6_ShouldFetch ==
    (response.op = "next" /\ request.current_index.t = "int") =>
       LET current_index == request.current_index.n
       IN  /\ (response.status = 200 /\ request.is_practice_mode) => response.should_fetch
           /\ (response.status = 200 /\ ~request.is_practice_mode) =>
                 (response.should_fetch <=>
                     current_index + Len(response.questions) < TEST_MODE_QUESTIONS)
           /\ (~request.is_practice_mode /\ current_index >= TEST_MODE_QUESTIONS
                  /\ request.topic # <<>>) =>
                 /\ response.status = 200
                 /\ response.questions = <<>>
                 /\ ~response.should_fetch

\* C6's case: a test-mode request at index 0 got the whole budget of 25
\* questions, and should_fetch is false
C6_BudgetReached ==
    /\ response.op = "next"
    /\ response.status = 200
    /\ ~request.is_practice_mode
    /\ request.current_index = [t |-> "int", n |-> 0]
    /\ Len(response.questions) = TEST_MODE_QUESTIONS
    /\ ~response.should_fetch

\* C7: every /quiz/next request whose topic parameter is absent or empty gets a
\* 400 client error, whatever its other parameters are (a current_index that is
\* not an integer included), makes no remote call and changes no cache.
C7_EmptyTopicIsClientError ==
    [][(request'.op = "next" /\ request'.topic = <<>>) =>
          /\ response'.status = 400
          /\ gen'.calls = 0
          /\ caches' = caches]_vars

\* C8: after /quiz/clear-cache, and after a second call of it, all five caches
\* are empty, and /quiz/status after each of the calls reports every count as 0
\* (clears.calls counts the clear-cache calls since the last /quiz/next).
C8_ClearCacheEmptiesAll ==
    clears.calls >= 1 =>
       /\ question_cache = <<>>
       /\ used_questions = {}
       /\ file_content_cache = EmptyMap
       /\ concept_cache = EmptyMap
       /\ processed_files = {}
       /\ response.op = "status" => response.counts = NoCounts

\* C8's case: clear-cache was called twice in a row, the first call finding all
\* five caches filled, and /quiz/status then reported every count as 0
C8_ClearedTwiceThenStatus ==
    /\ clears.calls = 2
    /\ clears.filled
    /\ response.op = "status"
    /\ response.counts = NoCounts

\* C9: a /quiz/next request makes no question-generation call when the queue
\* already holds at least one page for its mode, and at most one otherwise.
C9_AtMostOneGeneration ==
    [][request'.op = "next" =>
          /\ gen'.calls <= 1
          /\ Len(question_cache) >= QuestionsPerSet(request'.is_practice_mode) =>
                gen'.calls = 0]_vars

\* C9's case: a practice page was served from the queue without any
\* generation call
C9_ServedWithoutGeneration ==
    /\ response.op = "next"
    /\ response.status = 200
    /\ request.is_practice_mode
    /\ gen.calls = 0
    /\ Len(response.questions) = PRACTICE_MODE_QUESTIONS_PER_SET

\* C10: the generation prompt of a /quiz/next request is built from the raw file
\* content when it is available, else from the cached key concepts when they
\* are available, else from the request's topic (gen.content is the content
\* the request read, gen.concepts the concepts cached for its file).
C10_PromptByPriority ==
    gen.calls = 1 =>
       IF Truthy(gen.content)
       THEN gen.prompt.source = "content" /\ gen.prompt.body = gen.content.v
       ELSE IF Truthy(gen.concepts)
       THEN /\ gen.prompt.source = "concepts"
            /\ gen.prompt.body = gen.concepts.v
            /\ gen.prompt.about = Strip(request.topic)
       ELSE /\ gen.prompt.source = "topic"
            /\ gen.prompt.about = Strip(request.topic)

\* C14: in test mode, for every current_index with 0 <= current_index < 25, the
\* number of questions returned by one /quiz/next response plus current_index
\* never exceeds the budget of 25.
C14_WithinBudget ==
    (/\ response.op = "next"
     /\ response.status = 200
     /\ ~request.is_practice_mode
     /\ request.current_index.t = "int"
     /\ request.current_index.n \in 0..(TEST_MODE_QUESTIONS - 1)) =>
       request.current_index.n + Len(response.questions) <= TEST_MODE_QUESTIONS

\* C15: when a /quiz/next request ends with the 500 generation-failure error,
\* question_cache and used_questions are the same as before the request.
C15_FailureChangesNothing ==
    [][(/\ response'.op = "next"
        /\ response'.status = 500
        /\ response'.error = "Failed to generate questions") =>
          /\ question_cache' = question_cache
          /\ used_questions' = used_questions]_vars

\* C16: in every reachable state, every path in processed_files has an entry in
\* concept_cache and in file_content_cache.
C16_ProcessedFilesAreCached ==
    \A file_path \in processed_files :
       /\ file_path \in DOMAIN concept_cache
       /\ file_path \in DOMAIN file_content_cache

\* C11: for each content file path, extract_key_concepts is called at most once
\* between two clear-cache calls, and a request that builds its prompt from
\* concepts uses the concepts cached for a path.
C11_ConceptsExtractedOnce ==
    /\ \A file_path \in DOMAIN extract_calls : extract_calls[file_path] <= 1
    /\ (gen.calls = 1 /\ gen.prompt.source = "concepts") =>
          \E file_path \in DOMAIN concept_cache :
             gen.prompt.body = concept_cache[file_path]

\* C11's case: the concepts of a file were extracted once, and a later request
\* for it generated from the cached concepts
C11_CachedConceptsReused ==
    /\ \E file_path \in DOMAIN extract_calls : extract_calls[file_path] = 1
    /\ response.op = "next"
    /\ gen.calls = 1
    /\ gen.prompt.source = "concepts"
    /\ gen.prompt.body = <<"c">>

\* C17: every question returned by a /quiz/next request for topic T in mode M
\* was generated by a generation call made for topic T and mode M (the remote
\* model of SpecTopics writes T and M at the head of each question text).
C17_ServedWhatWasAskedFor ==
    (response.op = "next" /\ response.status = 200) =>
       \A i \in 1..Len(response.questions) :
          LET text == response.questions[i].question
              head == Strip(request.topic) \o <<ModeTag(request.is_practice_mode)>>
          IN  /\ Len(text) >= Len(head)
              /\ SubSeq(text, 1, Len(head)) = head

\* C13: under any interleaving of concurrent /quiz/next requests, each question
\* appended to question_cache is returned in at most one response, and no
\* question is deleted from the queue without being returned by the request
\* that deleted it (served holds the texts returned so far).
C13_EachQuestionReturnedOnce ==
    [][\A t \in Threads :
          (threads[t].pc = "reply" /\ threads'[t].pc = "idle") =>
             /\ Texts(threads[t].questions_to_send) \cap served = {}
             /\ threads[t].deleted = threads[t].questions_to_send]_vars

\* C12: for model output that is well-formed JSON except for a trailing comma
\* before a closing bracket or brace and that holds one valid question, whose
\* text is not in used_questions, exactly that one question is accepted.
C12_TrailingCommaRepaired ==
    (/\ call.made
     /\ output.comma \in 1..4
     /\ output.question.question.v \notin call.used) =>
       /\ call.ret = "list"
       /\ call.questions = <<CleanedQuestion(output.question)>>

====
